---- MODULE Spec2Model ----
(***************************************************************************)
(* microrabbit: AbstractClient (src/microrabbit/abc.py).                   *)
(*                                                                         *)
(* The model follows the request/response path of the client:              *)
(*   simple_publish   one coroutine per call, one step per await           *)
(*   _on_response     the callback the broker invokes for a reply          *)
(*   on_message       the decorator filling the module-level _queues       *)
(* The broker is the environment: it keeps the reply queues, the published *)
(* requests, and delivers replies to the queues requests name as reply_to. *)
(***************************************************************************)
EXTENDS Naturals, FiniteSets, TLC

\* ------------------------------------------------------------------ bounds

\* simple_publish calls in one run (each call is one coroutine)
NCalls == 2

\* queue names handlers are registered for
NNames == 2

Calls == 1..NCalls

\* ---------------------------------------------------------- correlation ids

\* str(uuid.uuid4()) of call c: fresh, never equal to another call's id or
\* to an id a caller passes.
Uuid(c) == <<"uuid", ToString(c)>>

\* a correlation id a caller passes explicitly (correlation_id=...)
UserIds == {<<"user", "given">>}

\* correlation_id=None
NoId == <<"none", "">>

CorrIds == {Uuid(c) : c \in Calls} \cup UserIds

\* ------------------------------------------------------------------ bodies

\* A request body: its Python type and the types of the values it holds.
JsonTypes == {"dict", "list", "str", "int", "bool", "null"}

Bodies ==
    { [type |-> "dict", items |-> {}],
      [type |-> "dict", items |-> {"set"}],
      [type |-> "str",  items |-> {}],
      [type |-> "set",  items |-> {}] }

\* faulty variant: only the type of the object itself is looked at
IsSerializableShallow(obj) ==
    obj.type \in JsonTypes

\* _is_serializable(obj): json.dumps(obj) raises TypeError for an object, or
\* a value inside it, of a type the encoder does not know.
IsSerializable(obj) ==
    obj.type \in JsonTypes /\ obj.items \subseteq JsonTypes

\* faulty variant: every container is tagged as JSON
ContentTypeContainers(b) ==
    IF b.type \in {"dict", "list"} THEN "application/json" ELSE "text/plain"

\* content_type of the request: isinstance(message, dict) decides
ContentType(b) ==
    IF b.type = "dict" THEN "application/json" ELSE "text/plain"

\* Replies a responder may send to a request with correlation id k: the
\* body names the request it answers, in one of two variants.
ReplyBodies(k) == { [enc |-> "bytes", re |-> k, v |-> n] : n \in {1, 2} }

\* response.decode(): bytes to str
Decode(bytes) == [bytes EXCEPT !.enc = "str"]

NoValue == [enc |-> "none", re |-> NoId, v |-> 0]

\* ------------------------------------------------------------------- state

VARIABLES
    conn,          \* self._connection: "none" | "open" | "closed"
    _futures,      \* self._futures: correlation id -> call owning the future, 0 = no entry
    _callbacks,    \* self._callbacks: correlation id -> reply queue (named by the call that declared it), 0 = no entry
    fut,           \* the asyncio.Future of each call: [state, result]
    pc,            \* where each simple_publish coroutine stands
    cid,           \* local correlation_id of each call
    outcome,       \* what each call gave its caller: [kind, value]
    delTarget,     \* queue name the finally block passed to queue_delete
    brokerQueues,  \* reply queues that exist on the broker
    consumers,     \* reply queues with _on_response attached
    requests,      \* requests published to the exchange
    nDeclared,     \* reply queues declared so far
    nDeleted,      \* reply queues deleted so far
    lastDispatch,  \* how the last _on_response invocation ended: the exception it raised, "bad_message" if it logged the message and returned, "none" otherwise
    _queues,       \* module-level _queues: name -> registration, NoReg = no entry
    lastReg,       \* how the last on_message registration ended
    wire,          \* the aio_pika.Message simple_publish built last: [body, content_type]
    _instances,    \* Singleton._instances: class -> instance, NoInstance = no entry
    lastNew,       \* what the last construction cls(host, plugins) gave: [kind, instance]
    probe          \* the is_connected coroutine: [pc, queue, task, result]

clientVars == <<conn, _futures, _callbacks, fut, pc, cid, outcome, delTarget,
                brokerQueues, consumers, requests, nDeclared, nDeleted, lastDispatch>>

regVars == <<_queues, lastReg>>

otherVars == <<wire, _instances, lastNew, probe>>

vars == <<conn, _futures, _callbacks, fut, pc, cid, outcome, delTarget,
          brokerQueues, consumers, requests, nDeclared, nDeleted, lastDispatch,
          _queues, lastReg, wire, _instances, lastNew, probe>>

NoFuture == [state |-> "none", result |-> NoValue]

NoOutcome == [kind |-> "none", value |-> NoValue]

\* ---------------------------------------------------------------- registry

Names == 1..NNames

Funcs == {"f", "g"}

\* QueueOptions / ConsumerOptions passed to on_message
QueueOpts == {"default", "exclusive"}

ConsumeOpts == {"default", "no_ack"}

NoReg == [func |-> "none", queue_options |-> "none", consume_options |-> "none"]

\* ------------------------------------------------- message, singleton, probe

NoWire == [body |-> [type |-> "none", items |-> {}], content_type |-> "none",
           routing_key |-> 0]

\* Message arguments of simple_publish: a dict, a list or a set holding
\* values of the given types, or a scalar.
ContentBodies ==
    { [type |-> t, items |-> s] :
          t \in {"dict", "list", "set"}, s \in SUBSET (JsonTypes \cup {"set"}) }
    \cup { [type |-> t, items |-> {}] : t \in {"str", "int", "bool", "null"} }

\* routing_key argument: 0 stands for None
RoutingKeyArgs == Names \cup {0}

\* routing_key = routing_key or queue_name
RoutingKey(queue_name, routing_key) ==
    IF routing_key = 0 THEN queue_name ELSE routing_key

\* classes built with metaclass=Singleton: AbstractClient and a subclass
Classes == {"AbstractClient", "Client"}

\* host arguments of a construction
Hosts == {"amqp://a/", "amqp://b/"}

\* plugins arguments: None, a directory that exists, the current directory,
\* a path that does not exist
PluginArgs == {"None", "plugins", ".", "missing"}

NoInstance == [host |-> "none", plugins |-> "none", inits |-> 0]

\* what the last call cls(host, plugins) was given and what it gave back
NoNew == [kind |-> "none", instance |-> NoInstance, host |-> "none",
          plugins |-> "none"]

\* is_connected: where the coroutine stands, what it has done with its probe
\* queue ("none" | "declared" | "deleted"), the consume task, whether
\* task.cancel() was called, the call of simple_publish it makes, and what it
\* gave its caller ("True" | "False" | "raised")
NoProbe == [pc |-> "idle", queue |-> "none", task |-> "none", cancel |-> FALSE,
            call |-> 0, result |-> "none"]

Init ==
    /\ conn = "none"
    /\ _futures = [k \in CorrIds |-> 0]
    /\ _callbacks = [k \in CorrIds |-> 0]
    /\ fut = [c \in Calls |-> NoFuture]
    /\ pc = [c \in Calls |-> "idle"]
    /\ cid = [c \in Calls |-> NoId]
    /\ outcome = [c \in Calls |-> NoOutcome]
    /\ delTarget = [c \in Calls |-> 0]
    /\ brokerQueues = {}
    /\ consumers = {}
    /\ requests = {}
    /\ nDeclared = 0
    /\ nDeleted = 0
    /\ lastDispatch = "none"
    /\ _queues = [n \in Names |-> NoReg]
    /\ lastReg = "none"
    /\ wire = NoWire
    /\ _instances = [cls \in Classes |-> NoInstance]
    /\ lastNew = NoNew
    /\ probe = NoProbe

\* ------------------------------------------------------------ connection

\* connect(): self._connection = await aio_pika.connect(self.host)
Connect ==
    /\ conn = "none"
    /\ conn' = "open"
    /\ UNCHANGED <<_futures, _callbacks, fut, pc, cid, outcome, delTarget,
                   brokerQueues, consumers, requests, nDeclared, nDeleted,
                   lastDispatch, _queues, lastReg, otherVars>>

\* close(): await self._connection.close(). The broker drops the exclusive
\* queues of the connection with their consumers. The futures in _futures
\* are not touched.
Close ==
    /\ conn = "open"
    /\ conn' = "closed"
    /\ brokerQueues' = {}
    /\ consumers' = {}
    /\ UNCHANGED <<_futures, _callbacks, fut, pc, cid, outcome, delTarget, requests,
                   nDeclared, nDeleted, lastDispatch, _queues, lastReg, otherVars>>

\* the channel can still carry a declare, consume, publish or delete
ChannelOpen == conn = "open"

\* ---------------------------------------------------------- simple_publish

\* faulty variant: the connection check is missing
NotConnectedNever == FALSE

\* if self._connection is None
NotConnected == conn = "none"

\* correlation_id as the call uses it: a fresh uuid when none was passed
CorrelationId(c, id) == IF id = NoId THEN Uuid(c) ELSE id

Raise(c, kind) ==
    /\ outcome' = [outcome EXCEPT ![c] = [kind |-> kind, value |-> NoValue]]
    /\ pc' = [pc EXCEPT ![c] = "done"]

\* Entry of simple_publish up to its first await: the connection check, the
\* correlation id, the serialization check, the future stored in _futures.
Start(c, id, b) ==
    /\ pc[c] = "idle"
    /\ IF NotConnected
       THEN /\ Raise(c, "RuntimeError")
            /\ UNCHANGED <<_futures, fut, cid>>
       ELSE IF ~IsSerializable(b)
       THEN /\ Raise(c, "ValueError")
            /\ UNCHANGED <<_futures, fut, cid>>
       ELSE /\ cid' = [cid EXCEPT ![c] = CorrelationId(c, id)]
            /\ fut' = [fut EXCEPT ![c] = [state |-> "pending", result |-> NoValue]]
            /\ _futures' = [_futures EXCEPT ![CorrelationId(c, id)] = c]
            /\ pc' = [pc EXCEPT ![c] = "declare"]
            /\ UNCHANGED outcome
    /\ UNCHANGED <<conn, _callbacks, delTarget, brokerQueues, consumers, requests,
                   nDeclared, nDeleted, lastDispatch, _queues, lastReg, otherVars>>

\* self._callbacks[correlation_id] = await self._channel.declare_queue(...)
\* The broker creates an exclusive queue with a fresh name (here: the call).
DeclareReplyQueue(c) ==
    /\ pc[c] = "declare"
    /\ ChannelOpen
    /\ brokerQueues' = brokerQueues \cup {c}
    /\ nDeclared' = nDeclared + 1
    /\ _callbacks' = [_callbacks EXCEPT ![cid[c]] = c]
    /\ pc' = [pc EXCEPT ![c] = "consume"]
    /\ UNCHANGED <<conn, _futures, fut, cid, outcome, delTarget, consumers,
                   requests, nDeleted, lastDispatch, _queues, lastReg, otherVars>>

\* aio_pika.Message(..., correlation_id=correlation_id, reply_to=...name):
\* the two properties a responder answers by. The payload and its
\* content_type do not reach the client again and are left out here.
Message(c, replyTo) ==
    [correlation_id |-> cid[c], reply_to |-> replyTo]

\* await self._callbacks[correlation_id].consume(self._on_response, ...)
\* returns (the consumer was attached to the queue this call declared); the
\* message is built, reading self._callbacks[correlation_id] again, and
\* published; the call then waits in asyncio.wait_for(future, timeout).
ConsumeAndPublish(c) ==
    /\ pc[c] = "consume"
    /\ ChannelOpen
    /\ consumers' = consumers \cup {c}
    /\ IF _callbacks[cid[c]] = 0
       THEN /\ Raise(c, "KeyError")
            /\ UNCHANGED requests
       ELSE /\ requests' = requests \cup {Message(c, _callbacks[cid[c]])}
            /\ pc' = [pc EXCEPT ![c] = "wait"]
            /\ UNCHANGED outcome
    /\ UNCHANGED <<conn, _futures, _callbacks, fut, cid, delTarget,
                   brokerQueues, nDeclared, nDeleted, lastDispatch, _queues, lastReg, otherVars>>

\* The deadline of wait_for elapses with the future still pending: wait_for
\* cancels the future. _futures is not touched.
Timeout(c) ==
    /\ pc[c] = "wait"
    /\ fut[c].state = "pending"
    /\ fut' = [fut EXCEPT ![c].state = "cancelled"]
    /\ UNCHANGED <<conn, _futures, _callbacks, pc, cid, outcome, delTarget,
                   brokerQueues, consumers, requests, nDeclared, nDeleted,
                   lastDispatch, _queues, lastReg, otherVars>>

\* What the try block gives: the (decoded) response, or TimeoutError.
TryResult(c, decode) ==
    IF fut[c].state = "done"
    THEN [kind |-> "reply",
          value |-> IF decode THEN Decode(fut[c].result) ELSE fut[c].result]
    ELSE [kind |-> "TimeoutError", value |-> NoValue]

\* wait_for has returned or raised and the coroutine runs again: the try
\* block's result is set, and the finally block reads
\* self._callbacks[correlation_id].name and awaits queue_delete.
Finally(c, decode) ==
    /\ pc[c] = "wait"
    /\ fut[c].state \in {"done", "cancelled"}
    /\ IF _callbacks[cid[c]] = 0
       THEN /\ Raise(c, "KeyError")
            /\ UNCHANGED delTarget
       ELSE /\ outcome' = [outcome EXCEPT ![c] = TryResult(c, decode)]
            /\ delTarget' = [delTarget EXCEPT ![c] = _callbacks[cid[c]]]
            /\ pc' = [pc EXCEPT ![c] = "delete"]
    /\ UNCHANGED <<conn, _futures, _callbacks, fut, cid, brokerQueues,
                   consumers, requests, nDeclared, nDeleted, lastDispatch,
                   _queues, lastReg, otherVars>>

\* faulty variant: the cleanup deletes every reply queue of the channel
DeletedQueuesAll(c) == brokerQueues

\* queues removed by self._channel.queue_delete(name)
DeletedQueues(c) == {delTarget[c]} \cap brokerQueues

\* faulty variant: the cleanup clears the whole table
DelCallbackAll(k) == [j \in CorrIds |-> 0]

\* del self._callbacks[correlation_id]
DelCallback(k) == [_callbacks EXCEPT ![k] = 0]

\* await self._channel.queue_delete(...) returns: the broker has deleted the
\* queue; then del self._callbacks[correlation_id].
QueueDeleted(c) ==
    /\ pc[c] = "delete"
    /\ ChannelOpen
    /\ brokerQueues' = brokerQueues \ DeletedQueues(c)
    /\ consumers' = consumers \ DeletedQueues(c)
    /\ nDeleted' = nDeleted + Cardinality(DeletedQueues(c))
    /\ IF _callbacks[cid[c]] = 0
       THEN /\ Raise(c, "KeyError")
            /\ UNCHANGED _callbacks
       ELSE /\ _callbacks' = DelCallback(cid[c])
            /\ pc' = [pc EXCEPT ![c] = "done"]
            /\ UNCHANGED outcome
    /\ UNCHANGED <<conn, _futures, fut, cid, delTarget, requests, nDeclared,
                   lastDispatch, _queues, lastReg, otherVars>>

\* ------------------------------------------- simple_publish: failing awaits

\* await self._channel.declare_queue(...) raises (line 212, outside the try
\* block): the exception leaves simple_publish, nothing is undone.
DeclareFails(c) ==
    /\ pc[c] = "declare"
    /\ Raise(c, "AMQPError")
    /\ UNCHANGED <<conn, _futures, _callbacks, fut, cid, delTarget, brokerQueues,
                   consumers, requests, nDeclared, nDeleted, lastDispatch,
                   _queues, lastReg, otherVars>>

\* await self._callbacks[correlation_id].consume(...) raises (line 214,
\* outside the try block).
ConsumeFails(c) ==
    /\ pc[c] = "consume"
    /\ Raise(c, "AMQPError")
    /\ UNCHANGED <<conn, _futures, _callbacks, fut, cid, delTarget, brokerQueues,
                   consumers, requests, nDeclared, nDeleted, lastDispatch,
                   _queues, lastReg, otherVars>>

\* consume returned, the message is built, and await self._exchange.publish
\* raises (lines 216-224, outside the try block).
PublishFails(c) ==
    /\ pc[c] = "consume"
    /\ ChannelOpen
    /\ consumers' = consumers \cup {c}
    /\ Raise(c, IF _callbacks[cid[c]] = 0 THEN "KeyError" ELSE "AMQPError")
    /\ UNCHANGED <<conn, _futures, _callbacks, fut, cid, delTarget, brokerQueues,
                   requests, nDeclared, nDeleted, lastDispatch, _queues, lastReg,
                   otherVars>>

\* await self._channel.queue_delete(...) raises inside the finally block
\* (line 235): the exception replaces the result of the try block, and
\* del self._callbacks[correlation_id] (line 236) is not reached.
QueueDeleteFails(c) ==
    /\ pc[c] = "delete"
    /\ Raise(c, "AMQPError")
    /\ UNCHANGED <<conn, _futures, _callbacks, fut, cid, delTarget, brokerQueues,
                   consumers, requests, nDeclared, nDeleted, lastDispatch,
                   _queues, lastReg, otherVars>>

\* ------------------------------------------------------------ _on_response

\* faulty variant: the dispatcher takes any waiting future, not the one
\* stored under the message's correlation id
WaiterAny(k) ==
    IF \E j \in CorrIds : _futures[j] # 0
    THEN _futures[CHOOSE j \in CorrIds : _futures[j] # 0]
    ELSE 0

\* the future self._futures.pop(message.correlation_id) returns, 0 = KeyError
Waiter(k) == _futures[k]

\* faulty variant: the entry is read and left in the table
PoppedNot(k) == _futures

\* self._futures after self._futures.pop(message.correlation_id)
Popped(k) == [_futures EXCEPT ![k] = 0]

\* faulty variant: the check for a missing correlation id is missing
IsBadMessageNever(k) == FALSE

\* if message.correlation_id is None
IsBadMessage(k) == k = NoId

\* _on_response(message): message arrived on a reply queue, carrying
\* correlation id k (NoId: message.correlation_id is None) and body rb.
OnResponse(k, rb) ==
    /\ IF IsBadMessage(k)
       THEN /\ lastDispatch' = "bad_message"
            /\ UNCHANGED <<_futures, fut>>
       ELSE IF k \notin CorrIds \/ Waiter(k) = 0
       THEN /\ lastDispatch' = "KeyError"
            /\ UNCHANGED <<_futures, fut>>
       ELSE /\ _futures' = Popped(k)
            /\ IF fut[Waiter(k)].state = "pending"
               THEN /\ fut' = [fut EXCEPT ![Waiter(k)] = [state |-> "done", result |-> rb]]
                    /\ lastDispatch' = "none"
               ELSE /\ lastDispatch' = "InvalidStateError"
                    /\ UNCHANGED fut
    /\ UNCHANGED <<conn, _callbacks, pc, cid, outcome, delTarget, brokerQueues,
                   consumers, requests, nDeclared, nDeleted, _queues, lastReg, otherVars>>

\* A responder answers request r: the reply goes to r.reply_to with r's
\* correlation id (or, malformed, with none), and the broker hands it to the
\* consumer of that queue.
Deliver(r, hasId, rb) ==
    /\ r.reply_to \in brokerQueues \cap consumers
    /\ OnResponse(IF hasId THEN r.correlation_id ELSE NoId, rb)

\* --------------------------------------------------------------- on_message

\* faulty variant: the duplicate check is missing
AlreadyAddedNever(queue_name) == FALSE

\* if queue_name in _queues
AlreadyAdded(queue_name) == _queues[queue_name] # NoReg

\* on_message(queue_name, queue_options, consume_options)(func)
OnMessage(queue_name, func, queue_options, consume_options) ==
    /\ IF AlreadyAdded(queue_name)
       THEN /\ lastReg' = "ValueError"
            /\ UNCHANGED _queues
       ELSE /\ _queues' = [_queues EXCEPT ![queue_name] =
                              [func |-> func, queue_options |-> queue_options,
                               consume_options |-> consume_options]]
            /\ lastReg' = "added"
    /\ UNCHANGED <<clientVars, otherVars>>

\* --------------------------------------------------------------- singleton

\* faulty variant: the metaclass never finds an instance
HasInstanceNever(cls) == FALSE

\* cls in cls._instances
HasInstance(cls) == _instances[cls] # NoInstance

\* the exception __init__ raises for a plugins argument, "none" if it returns
InitError(plugins) ==
    IF plugins = "." THEN "ValueError"
    ELSE IF plugins = "missing" THEN "FileNotFoundError"
    ELSE "none"

New(kind, instance, host, plugins) ==
    [kind |-> kind, instance |-> instance, host |-> host, plugins |-> plugins]

\* cls(host, plugins): Singleton.__call__, and AbstractClient.__init__ when
\* the class has no instance.  The variables conn, _futures and _callbacks
\* are the fields of the instance of "Client"; of the instance of the other
\* class only host and plugins are kept.  An instance whose __init__ raises
\* is not stored.
Construct(cls, host, plugins) ==
    /\ IF HasInstance(cls)
       THEN /\ lastNew' = New("existing", _instances[cls], host, plugins)
            /\ UNCHANGED <<_instances, conn, _futures, _callbacks>>
       ELSE IF InitError(plugins) # "none"
       THEN /\ lastNew' = New(InitError(plugins), NoInstance, host, plugins)
            /\ UNCHANGED <<_instances, conn, _futures, _callbacks>>
       ELSE /\ _instances' = [_instances EXCEPT ![cls] =
                                 [host |-> host, plugins |-> plugins, inits |-> 1]]
            /\ lastNew' = New("created", _instances'[cls], host, plugins)
            /\ IF cls = "Client"
               THEN /\ conn' = "none"
                    /\ _futures' = [k \in CorrIds |-> 0]
                    /\ _callbacks' = [k \in CorrIds |-> 0]
               ELSE UNCHANGED <<conn, _futures, _callbacks>>
    /\ UNCHANGED <<fut, pc, cid, outcome, delTarget, brokerQueues, consumers,
                   requests, nDeclared, nDeleted, lastDispatch, regVars, wire,
                   probe>>

\* ------------------------------------------------------------ is_connected

ProbeUnchanged ==
    UNCHANGED <<clientVars, regVars, wire, _instances, lastNew>>

\* self._connection is None or self._connection.is_closed
IsClosed == conn # "open"

\* Entry of is_connected: return False for a missing or closed connection,
\* else go on to declare the probe queue.
IsConnected ==
    /\ probe.pc = "idle"
    /\ IF IsClosed
       THEN probe' = [probe EXCEPT !.pc = "done", !.result = "False"]
       ELSE probe' = [probe EXCEPT !.pc = "declare"]
    /\ ProbeUnchanged

\* new_queue = await self.declare_queue(...) returns and the consume task is
\* created; c is the call of simple_publish that follows.
ProbeDeclare(c) ==
    /\ probe.pc = "declare"
    /\ ChannelOpen
    /\ pc[c] = "idle"
    /\ probe' = [probe EXCEPT !.pc = "publish", !.queue = "declared",
                              !.task = "pending", !.call = c]
    /\ ProbeUnchanged

\* declare_queue raises on a closed channel, before the try block
ProbeDeclareFails ==
    /\ probe.pc = "declare"
    /\ ~ChannelOpen
    /\ probe' = [probe EXCEPT !.pc = "done", !.result = "raised"]
    /\ ProbeUnchanged

\* the task runs new_queue.consume(message_handler) to its end
ProbeConsume ==
    /\ probe.pc = "publish"
    /\ probe.task = "pending"
    /\ ChannelOpen
    /\ probe' = [probe EXCEPT !.task = "done"]
    /\ ProbeUnchanged

\* self.simple_publish(new_queue.name, {}, correlation_id=uid) with a fresh uid
ProbePublish ==
    /\ probe.pc = "publish"
    /\ Start(probe.call, NoId, [type |-> "dict", items |-> {}])

\* the steps of that call, with decode at its default
ProbeCallStep ==
    /\ probe.pc = "publish"
    /\ \/ DeclareReplyQueue(probe.call)
       \/ ConsumeAndPublish(probe.call)
       \/ Timeout(probe.call)
       \/ Finally(probe.call, TRUE)
       \/ QueueDeleted(probe.call)

ProbeCallFails ==
    /\ probe.pc = "publish"
    /\ \/ DeclareFails(probe.call)
       \/ ConsumeFails(probe.call)
       \/ PublishFails(probe.call)
       \/ QueueDeleteFails(probe.call)

\* message_handler answers the probe request with the request's correlation id
ProbeReply ==
    /\ probe.pc = "publish"
    /\ probe.task = "done"
    /\ \E r \in requests : \E rb \in ReplyBodies(r.correlation_id) :
          Deliver(r, TRUE, rb)

\* bool(resp) of a decoded reply: the body is not empty
Bool(resp) == resp.v # 0

\* return bool(resp) / except Exception: return False
ProbeResult(o) ==
    IF o.kind = "reply" /\ Bool(o.value) THEN "True" ELSE "False"

\* task.cancel(): a task that has finished stays finished
Cancelled(task) == IF task = "pending" THEN "cancelled" ELSE task

\* simple_publish has returned or raised; the finally block cancels the task
\* and queue_delete returns; is_connected returns the value of the try or
\* except block.
ProbeFinish ==
    /\ probe.pc = "publish"
    /\ pc[probe.call] = "done"
    /\ ChannelOpen
    /\ probe' = [probe EXCEPT !.pc = "done", !.cancel = TRUE,
                              !.task = Cancelled(probe.task),
                              !.queue = "deleted",
                              !.result = ProbeResult(outcome[probe.call])]
    /\ ProbeUnchanged

\* the same, on a closed channel: queue_delete raises inside the finally
\* block and the exception replaces the return value
ProbeDeleteFails ==
    /\ probe.pc = "publish"
    /\ pc[probe.call] = "done"
    /\ ~ChannelOpen
    /\ probe' = [probe EXCEPT !.pc = "done", !.cancel = TRUE,
                              !.task = Cancelled(probe.task),
                              !.result = "raised"]
    /\ ProbeUnchanged

\* The message simple_publish builds for a serializable body once the
\* connection check has passed, and the routing key it is published with.
BuildMessage(queue_name, b, routing_key) ==
    /\ ~NotConnected
    /\ IsSerializable(b)
    /\ wire' = [body |-> b, content_type |-> ContentType(b),
                routing_key |-> RoutingKey(queue_name, routing_key)]
    /\ UNCHANGED <<clientVars, regVars, _instances, lastNew, probe>>

\* ----------------------------------------------------------- specifications

Next ==
    \/ Connect
    \/ \E c \in Calls, id \in UserIds \cup {NoId}, b \in Bodies : Start(c, id, b)
    \/ \E c \in Calls : DeclareReplyQueue(c)
    \/ \E c \in Calls : ConsumeAndPublish(c)
    \/ \E c \in Calls : Timeout(c)
    \/ \E c \in Calls, decode \in BOOLEAN : Finally(c, decode)
    \/ \E c \in Calls : QueueDeleted(c)
    \/ \E r \in requests, hasId \in BOOLEAN :
          \E rb \in ReplyBodies(r.correlation_id) : Deliver(r, hasId, rb)

Spec == Init /\ [][Next]_vars

\* Scheduling of one call: the event loop resumes a coroutine whose await
\* has completed, and the timer of wait_for fires while the future is pending.
CallFairness(c) ==
    /\ WF_vars(DeclareReplyQueue(c))
    /\ WF_vars(ConsumeAndPublish(c))
    /\ WF_vars(Timeout(c))
    /\ WF_vars(\E decode \in BOOLEAN : Finally(c, decode))
    /\ WF_vars(QueueDeleted(c))

FairSpec == Init /\ [][Next]_vars /\ \A c \in Calls : CallFairness(c)

\* The client with a channel whose operations may fail and a connection
\* that may be closed.
NextFaults ==
    \/ Next
    \/ Close
    \/ \E c \in Calls : DeclareFails(c)
    \/ \E c \in Calls : ConsumeFails(c)
    \/ \E c \in Calls : PublishFails(c)
    \/ \E c \in Calls : QueueDeleteFails(c)

SpecFaults == Init /\ [][NextFaults]_vars

NextRegistry ==
    \E n \in Names, f \in Funcs, qo \in QueueOpts, co \in ConsumeOpts :
        OnMessage(n, f, qo, co)

SpecRegistry == Init /\ [][NextRegistry]_vars

NextContent ==
    \/ Connect
    \/ \E n \in Names, b \in ContentBodies, rk \in RoutingKeyArgs :
          BuildMessage(n, b, rk)

SpecContent == Init /\ [][NextContent]_vars

\* Constructions of the client classes, and the instance of "Client" in use.
NextSingleton ==
    \/ \E cls \in Classes, h \in Hosts, p \in PluginArgs : Construct(cls, h, p)
    \/ _instances["Client"] # NoInstance /\ Connect
    \/ /\ _instances["Client"] # NoInstance
       /\ \E c \in Calls, id \in UserIds \cup {NoId}, b \in Bodies : Start(c, id, b)

SpecSingleton == Init /\ [][NextSingleton]_vars

\* One run of is_connected on a connection that may be closed meanwhile.
NextProbe ==
    \/ Connect
    \/ Close
    \/ IsConnected
    \/ \E c \in Calls : ProbeDeclare(c)
    \/ ProbeDeclareFails
    \/ ProbeConsume
    \/ ProbePublish
    \/ ProbeCallStep
    \/ ProbeCallFails
    \/ ProbeReply
    \/ ProbeFinish
    \/ ProbeDeleteFails

SpecProbe == Init /\ [][NextProbe]_vars

TypeOK ==
    /\ conn \in {"none", "open", "closed"}
    /\ _futures \in [CorrIds -> Calls \cup {0}]
    /\ _callbacks \in [CorrIds -> Calls \cup {0}]
    /\ \A c \in Calls : fut[c].state \in {"none", "pending", "done", "cancelled"}
    /\ \A c \in Calls : pc[c] \in {"idle", "declare", "consume", "wait", "delete", "done"}
    /\ brokerQueues \subseteq Calls
    /\ consumers \subseteq Calls
    /\ nDeclared \in 0..NCalls
    /\ nDeleted \in 0..NCalls

\* ------------------------------------------------------------------ claims

\* the reply and timeout outcomes of a call that published its request
Returned(c) ==
    pc[c] = "done" /\ outcome[c].kind \in {"reply", "TimeoutError"}

\* C1: a simple_publish call that declared its reply queue and published
\* never returns (reply or timeout) with that queue still on the broker or
\* still in _callbacks, and once all such calls have returned the number of
\* reply queues declared equals the number deleted.
C1_NoLeakedReplyQueue ==
    /\ \A c \in Calls :
          Returned(c) => c \notin brokerQueues /\ _callbacks[cid[c]] # c
    /\ (\A c \in Calls : pc[c] = "idle" \/ Returned(c)) => nDeclared = nDeleted

\* C2: once a call has raised its timeout error, _futures holds no entry for
\* that call's correlation id.
C2_TimeoutRemovesWaiter ==
    \A c \in Calls :
        (pc[c] = "done" /\ outcome[c].kind = "TimeoutError") => _futures[cid[c]] = 0

\* C3: _on_response for a correlation id without an entry in _futures
\* returns without raising and leaves _futures, _callbacks and every future
\* as they were.
C3_UnknownCorrelationDropped ==
    [][ \A r \in requests : \A rb \in ReplyBodies(r.correlation_id) :
          (Deliver(r, TRUE, rb) /\ _futures[r.correlation_id] = 0)
             => /\ lastDispatch' = "none"
                /\ UNCHANGED <<_futures, _callbacks, fut>> ]_vars

\* C4: a reply dispatched for a correlation id whose call has already timed
\* out (its future is cancelled) is a no-op: _on_response does not raise and
\* completes no future.
C4_LateReplyIsNoOp ==
    [][ \A r \in requests : \A rb \in ReplyBodies(r.correlation_id) :
          (/\ Deliver(r, TRUE, rb)
           /\ \E c \in Calls : /\ cid[c] = r.correlation_id
                               /\ fut[c].state = "cancelled"
                               /\ _futures[r.correlation_id] \in {0, c})
             => /\ lastDispatch' = "none"
                /\ fut' = fut ]_vars

\* a call returned the body, as bytes or decoded, of a reply that was sent
\* for its own correlation id
OwnReply(c) ==
    outcome[c].kind = "reply"
       => \E rb \in ReplyBodies(cid[c]) : outcome[c].value \in {rb, Decode(rb)}

\* C5: a call that returns a reply returns a body of a reply carrying its
\* own correlation id, and a reply delivered for one correlation id changes
\* neither the future, the position nor the outcome of a call with another
\* correlation id (a step that changes one of them for call d is not the
\* delivery of a reply to a request with another correlation id).
C5_RepliesResolveIndependently ==
    /\ [](\A c \in Calls : OwnReply(c))
    /\ [][ \A r \in requests, d \in Calls :
             (cid[d] # NoId /\ cid[d] # r.correlation_id)
                => \/ /\ fut'[d] = fut[d]
                      /\ pc'[d] = pc[d]
                      /\ outcome'[d] = outcome[d]
                      /\ _futures'[cid[d]] = _futures[cid[d]]
                   \/ \A h \in BOOLEAN : \A rb \in ReplyBodies(r.correlation_id) :
                         ~Deliver(r, h, rb) ]_vars

\* C5 witness: of two calls with distinct correlation ids one has returned
\* its reply while the reply to the other was dropped and it timed out.
C5_Witness ==
    \E c, d \in Calls :
        /\ cid[c] # cid[d]
        /\ pc[c] = "done" /\ outcome[c].kind = "reply"
        /\ pc[d] = "done" /\ outcome[d].kind = "TimeoutError"

\* a step of call c on its timeout path: the deadline, then the cleanup
TimeoutPathStep(c) ==
    \/ Timeout(c)
    \/ /\ fut[c].state = "cancelled"
       /\ \/ \E decode \in BOOLEAN : Finally(c, decode)
          \/ QueueDeleted(c)

\* C6: the timeout of a call and its cleanup leave, for every call with
\* another correlation id, the _futures entry, the future, the _callbacks
\* entry and the reply queue as they were.
C6_TimeoutLeavesOthersUntouched ==
    [][ \A c \in Calls :
          TimeoutPathStep(c)
             => \A d \in Calls :
                   (cid[d] # NoId /\ cid[d] # cid[c])
                      => /\ fut'[d] = fut[d]
                         /\ _futures'[cid[d]] = _futures[cid[d]]
                         /\ _callbacks'[cid[d]] = _callbacks[cid[d]]
                         /\ (d \in brokerQueues') = (d \in brokerQueues)
                         /\ (d \in consumers') = (d \in consumers) ]_vars

\* C6 witness: one call has timed out and finished its cleanup while a call
\* with another correlation id is still waiting on its reply queue.
C6_Witness ==
    \E c, d \in Calls :
        /\ cid[c] # cid[d]
        /\ pc[c] = "done" /\ outcome[c].kind = "TimeoutError"
        /\ pc[d] = "wait" /\ fut[d].state = "pending"
        /\ _futures[cid[d]] = d /\ _callbacks[cid[d]] = d
        /\ d \in brokerQueues \cap consumers

\* a body JSON cannot encode: its type, or the type of a value in it, is
\* not a JSON type
NotJson(b) ==
    b.type \notin JsonTypes \/ \E t \in b.items : t \notin JsonTypes

\* C7: a simple_publish call on a connected client with a body that is not
\* JSON-encodable ends with ValueError and changes neither _futures nor
\* _callbacks, declares no queue and publishes nothing.
C7_UnserializableRejectedFirst ==
    [][ \A c \in Calls, id \in UserIds \cup {NoId}, b \in Bodies :
          (Start(c, id, b) /\ conn = "open" /\ NotJson(b))
             => /\ pc'[c] = "done"
                /\ outcome'[c].kind = "ValueError"
                /\ UNCHANGED <<_futures, _callbacks, fut, brokerQueues, consumers,
                               requests, nDeclared, nDeleted>> ]_vars

\* C7 witness: a call on a connected client was rejected with ValueError.
C7_Witness ==
    /\ conn = "open"
    /\ \E c \in Calls : pc[c] = "done" /\ outcome[c].kind = "ValueError"

\* C8: a simple_publish call before connect() ends with the not-connected
\* RuntimeError and changes neither _futures nor _callbacks, declares no
\* queue and publishes nothing.
C8_NotConnectedNoSideEffects ==
    [][ \A c \in Calls, id \in UserIds \cup {NoId}, b \in Bodies :
          (Start(c, id, b) /\ conn = "none")
             => /\ pc'[c] = "done"
                /\ outcome'[c].kind = "RuntimeError"
                /\ UNCHANGED <<_futures, _callbacks, fut, brokerQueues, consumers,
                               requests, nDeclared, nDeleted>> ]_vars

\* C8 witness: a call made before connect() has ended with RuntimeError.
C8_Witness ==
    /\ conn = "none"
    /\ \E c \in Calls : pc[c] = "done" /\ outcome[c].kind = "RuntimeError"

\* C9: registering a handler for a name that already has one raises
\* ValueError and leaves _queues, and so the first registration, unchanged.
C9_OneHandlerPerName ==
    [][ \A n \in Names, f \in Funcs, qo \in QueueOpts, co \in ConsumeOpts :
          (OnMessage(n, f, qo, co) /\ _queues[n] # NoReg)
             => /\ lastReg' = "ValueError"
                /\ _queues' = _queues ]_vars

\* C9 witness: a second registration for a registered name was refused.
C9_Witness ==
    /\ lastReg = "ValueError"
    /\ \E n \in Names : _queues[n] # NoReg

\* C10: a simple_publish call with a caller-supplied correlation id that is
\* still pending from another call is rejected with an error and leaves
\* _futures and _callbacks unchanged.
C10_DuplicateCorrelationRejected ==
    [][ \A c \in Calls, id \in UserIds, b \in Bodies :
          (/\ Start(c, id, b)
           /\ conn = "open"
           /\ ~NotJson(b)
           /\ _futures[id] # 0
           /\ fut[_futures[id]].state = "pending")
             => /\ pc'[c] = "done"
                /\ outcome'[c].kind \notin {"none", "reply"}
                /\ UNCHANGED <<_futures, _callbacks>> ]_vars

\* Every call that waits for its reply ends: a reply or the deadline ends
\* wait_for, and the cleanup follows.
EveryWaitEnds ==
    \A c \in Calls : (pc[c] = "wait") ~> (pc[c] = "done")

\* C11: a call that published its request and got no reply (its future was
\* cancelled by the deadline) has, once it has ended, raised the timeout
\* error, and the reply queue it declared is gone from the broker.
C11_NoReplyEndsInTimeout ==
    \A c \in Calls :
        (pc[c] = "done" /\ fut[c].state = "cancelled")
           => /\ outcome[c].kind = "TimeoutError"
              /\ c \notin brokerQueues

\* C12: when declaring the reply queue, attaching the consumer or publishing
\* fails after the waiter was stored, the call returns the error with the
\* reply queue it declared deleted and with no entry for its correlation id
\* in _futures or _callbacks.
C12_FailedArmingCleansUp ==
    [][ \A c \in Calls :
          (DeclareFails(c) \/ ConsumeFails(c) \/ PublishFails(c))
             => /\ c \notin brokerQueues'
                /\ _futures'[cid[c]] = 0
                /\ _callbacks'[cid[c]] = 0 ]_vars

\* C13: when queue_delete fails in the cleanup, the caller still gets the
\* outcome of the try block (the reply or the timeout error) and the
\* _callbacks entry of the correlation id is removed.
C13_CleanupFailureKeepsOutcome ==
    [][ \A c \in Calls :
          QueueDeleteFails(c)
             => /\ outcome'[c] = outcome[c]
                /\ _callbacks'[cid[c]] = 0 ]_vars

\* C17: closing the connection fails every armed waiter: no call that was
\* waiting on a pending future is still waiting on it after close().
C17_CloseFailsArmedWaiters ==
    [][ Close
          => \A c \in Calls :
                (pc[c] = "wait" /\ fut[c].state = "pending")
                   => fut'[c].state # "pending" ]_vars

\* the value a call returned is the result of its future, as bytes or decoded
ReturnsResult(c) ==
    outcome[c].kind = "reply"
       => /\ fut[c].state = "done"
          /\ outcome[c].value \in {fut[c].result, Decode(fut[c].result)}

\* C14: the result of a future is set at most once (a future that is done
\* keeps its result whatever is dispatched later), the dispatch that sets it
\* removes the entry from _futures, and the value the call returns is that
\* result: the body of the first reply dispatched to the waiter.
C14_ResolvedAtMostOnce ==
    /\ [](\A c \in Calls : ReturnsResult(c))
    /\ [][ \A c \in Calls :
             /\ fut[c].state = "done" => fut'[c] = fut[c]
             /\ (fut[c].state = "pending" /\ fut'[c].state = "done")
                   => (_futures[cid[c]] = c /\ _futures'[cid[c]] = 0) ]_vars

\* C14 witness: a call has returned its reply, and a further reply for its
\* correlation id was dispatched after the entry had been removed.
C14_Witness ==
    /\ lastDispatch = "KeyError"
    /\ \E c \in Calls :
          /\ pc[c] = "done" /\ outcome[c].kind = "reply"
          /\ _futures[cid[c]] = 0
          /\ \A d \in Calls \ {c} : pc[d] = "idle"

\* C15: _on_response for a message without correlation id logs it and
\* returns: it raises nothing, completes no future and leaves _futures and
\* _callbacks, the position and the outcome of every call as they were.
C15_BadMessageDropped ==
    [][ \A r \in requests : \A rb \in ReplyBodies(r.correlation_id) :
          Deliver(r, FALSE, rb)
             => /\ lastDispatch' = "bad_message"
                /\ UNCHANGED <<_futures, _callbacks, fut, pc, outcome>> ]_vars

\* C15 witness: a message without correlation id was dispatched while a
\* request is pending, and the request is still pending.
C15_Witness ==
    /\ lastDispatch = "bad_message"
    /\ \E c \in Calls :
          pc[c] = "wait" /\ fut[c].state = "pending" /\ _futures[cid[c]] = c

\* C16: at the step that publishes the request of a call, the future of the
\* call is the entry of _futures under its correlation id, the reply queue
\* the call declared exists and is the entry of _callbacks, _on_response
\* consumes from it, and the message published carries the correlation id
\* and that queue as reply_to.
C16_PublishedOnlyWhenArmed ==
    [][ \A c \in Calls :
          (ConsumeAndPublish(c) /\ pc'[c] = "wait")
             => /\ _futures[cid[c]] = c
                /\ c \in brokerQueues
                /\ _callbacks[cid[c]] = c
                /\ c \in consumers'
                /\ Message(c, c) \in requests' ]_vars

\* C18: the content type of a request built by simple_publish is
\* application/json exactly when the body is a dict, and text/plain for
\* every other serializable body.
C18_JsonTagIffDict ==
    wire # NoWire =>
        /\ IsSerializable(wire.body)
        /\ wire.content_type = "application/json" <=> wire.body.type = "dict"
        /\ wire.body.type # "dict" => wire.content_type = "text/plain"

\* a list that holds a dict is sent as text/plain
C18_Witness ==
    /\ wire.body.type = "list"
    /\ "dict" \in wire.body.items
    /\ wire.content_type = "text/plain"

\* C19: a construction of a class that has an instance returns that instance
\* and changes neither the instance (host, plugins, number of __init__ runs)
\* nor the connection and the _futures and _callbacks tables, whatever
\* arguments it is given; no instance is initialised more than once.
C19_OneInstancePerClass ==
    [][ \A cls \in Classes, h \in Hosts, p \in PluginArgs :
          (Construct(cls, h, p) /\ _instances[cls] # NoInstance)
             => /\ _instances' = _instances
                /\ _instances[cls].inits = 1
                /\ lastNew'.kind = "existing"
                /\ lastNew'.instance = _instances[cls]
                /\ UNCHANGED <<conn, _futures, _callbacks>> ]_vars

\* Client("amqp://b/", ".") after Client("amqp://a/", ...) has connected and
\* holds a waiter: the first instance comes back, no ValueError
C19_Witness ==
    /\ lastNew.kind = "existing"
    /\ lastNew.plugins = "."
    /\ lastNew.host # lastNew.instance.host
    /\ lastNew.instance = _instances["Client"]
    /\ conn = "open"
    /\ \E k \in CorrIds : _futures[k] # 0

\* C20: is_connected that found no open connection has returned False with
\* no queue declared and nothing published; is_connected that declared its
\* probe queue has, when it ends, called task.cancel(), deleted the probe
\* queue, and returned True or False.
C20_ProbeCleansUpAndReturns ==
    probe.pc = "done" =>
        /\ probe.queue = "none" /\ probe.result = "False"
              => nDeclared = 0 /\ requests = {}
        /\ probe.queue # "none"
              => /\ probe.cancel
                 /\ probe.queue = "deleted"
                 /\ probe.result \in {"True", "False"}

====
